---- MODULE Spec2Model ----
(***************************************************************************)
(* cache-buster: the build-time file processor (src/src/processor.rs) and  *)
(* the runtime file map (src/src/filemap.rs).                              *)
(*                                                                         *)
(* A string is a sequence of characters.  A name such as "svg", or the 64  *)
(* hexadecimal digits of a SHA-256 digest, is kept as one character of the *)
(* sequence: no operation of the program cuts inside one.                  *)
(* A file system is a function from locations (the sequence of names       *)
(* leading to a node) to nodes; a directory node lists its entries in the  *)
(* order read_dir returns them.                                            *)
(* An intermediate value of the code (a `let`) is the last parameter of a  *)
(* helper operator, so that it is computed once.                           *)
(***************************************************************************)
EXTENDS Naturals, Sequences, FiniteSets, TLC

VARIABLES
    cfg,        \* the BusterBuilder / Buster fields
    pc,         \* where the build script is: config, built, build_err, mirrored,
                \* done, panicked, failed; "table" when only a table is exercised
    fs,         \* the file system
    file_map,   \* processor::Files built by process()
    data_file,  \* content of CACHE_BUSTER_DATA_FILE (None: no such file)
    loaded,     \* filemap::Files loaded by the running program (None: not loaded)
    run,        \* "first" or "second" call of process() by the build script
    prev,       \* what the first run left: table, loaded table, result tree
    edited,     \* source files whose bytes were changed between the two runs
    last_add,   \* the last call of Files::add: arguments, table before, result
    fs0         \* the file system when the build script started

vars == <<cfg, pc, fs, file_map, data_file, loaded, run, prev, edited, last_add, fs0>>

\* ------------------------------------------------------------------ bounds

\* byte values are 0..MaxByte
MaxByte == 1
\* every file holds ContentLen bytes
ContentLen == 2
\* the longest path the file system takes, in components
MaxPathLen == 5

\* ----------------------------------------------------------------- options

None == [some |-> FALSE, val |-> <<>>]
Some(v) == [some |-> TRUE, val |-> v]
\* a call that panicked instead of returning
Panicked == [some |-> FALSE, val |-> <<"panicked">>]

\* ------------------------------------------------------- std::path::Path

Sep == "/"
Dot == "."
RootDir == <<"/">>
CurDir == <<".">>

Last(s) == s[Len(s)]
Front(s) == SubSeq(s, 1, Len(s) - 1)
SeqToSet(q) == {q[i] : i \in 1..Len(q)}
IsPrefixSeq(a, b) == Len(a) <= Len(b) /\ SubSeq(b, 1, Len(a)) = a

SplitCons(ch, r) ==
    IF ch = Sep THEN << <<>> >> \o r ELSE << <<ch>> \o Head(r) >> \o Tail(r)

RECURSIVE Split(_)
\* the pieces of a string between its separators (empty pieces included)
Split(p) == IF p = <<>> THEN << <<>> >> ELSE SplitCons(Head(p), Split(Tail(p)))

has_root(p) == p # <<>> /\ p[1] = Sep

IsNormal(piece) == piece # <<>> /\ piece # CurDir

ComponentsOf(p, parts) ==
    (IF has_root(p) THEN <<RootDir>>
     ELSE IF parts[1] = CurDir THEN <<CurDir>>
     ELSE <<>>) \o SelectSeq(parts, IsNormal)

\* Path::components: repeated separators, a trailing separator and every "."
\* but a leading one are dropped
Components(p) == ComponentsOf(p, Split(p))

\* Path == Path compares components
PathEq(p, q) == Components(p) = Components(q)

\* Path::join (PathBuf::push): an absolute argument replaces the path
Join(base, p) ==
    IF has_root(p) THEN p
    ELSE IF base = <<>> THEN p
    ELSE IF Last(base) = Sep THEN base \o p
    ELSE base \o <<Sep>> \o p

RECURSIVE JoinComps(_)
\* the text of a sequence of components
JoinComps(cs) ==
    IF cs = <<>> THEN <<>>
    ELSE IF Len(cs) = 1 THEN cs[1]
    ELSE cs[1] \o <<Sep>> \o JoinComps(Tail(cs))

StripComps(cp, cb) ==
    IF IsPrefixSeq(cb, cp) THEN Some(JoinComps(SubSeq(cp, Len(cb) + 1, Len(cp)))) ELSE None

\* Path::strip_prefix: None unless base's components start p's
strip_prefix(p, base) == StripComps(Components(p), Components(base))

ParentOf(c) ==
    IF c = <<>> \/ c = <<RootDir>> THEN None
    ELSE IF c[1] = RootDir THEN Some(<<Sep>> \o JoinComps(Tail(Front(c))))
    ELSE Some(JoinComps(Front(c)))

\* Path::parent: None for the empty path and for the root
parent(p) == ParentOf(Components(p))

FileNameOf(c) ==
    IF c = <<>> THEN None
    ELSE IF Last(c) = RootDir \/ Last(c) = CurDir THEN None
    ELSE Some(Last(c))

\* Path::file_name
file_name(p) == FileNameOf(Components(p))

\* the place of the last "." of a name, 0 when it has none
LastDot(n) ==
    LET dots == {i \in 1..Len(n) : n[i] = Dot} IN
    IF dots = {} THEN 0 ELSE CHOOSE i \in dots : \A j \in dots : j <= i

StemAt(n, dot) == IF dot <= 1 THEN Some(n) ELSE Some(SubSeq(n, 1, dot - 1))
StemOf(f) == IF ~f.some THEN None ELSE StemAt(f.val, LastDot(f.val))

\* Path::file_stem: the name up to its last ".", the whole name when it has no
\* "." or only a leading one
file_stem(p) == StemOf(file_name(p))

ExtensionAt(n, dot) == IF dot <= 1 THEN None ELSE Some(SubSeq(n, dot + 1, Len(n)))
ExtensionOf(f) == IF ~f.some THEN None ELSE ExtensionAt(f.val, LastDot(f.val))

\* Path::extension: what follows the last "." of the name, None when the name
\* has no "." or only a leading one
extension(p) == ExtensionOf(file_name(p))

\* ------------------------------------------------------------ file system

\* a node bears the number of the write that made it (a logical creation
\* time); the nodes the program finds bear 0
Dir(entries) ==
    [kind |-> "dir", entries |-> entries, content |-> <<>>, made |-> 0, link |-> FALSE]
File(content) ==
    [kind |-> "file", entries |-> <<>>, content |-> content, made |-> 0, link |-> FALSE]
\* a symbolic link to a directory, as the calls that follow links see it: the
\* directory it points to, under the link's own name
LinkedDir(entries) == [Dir(entries) EXCEPT !.link = TRUE]

Latest(S) == CHOOSE m \in S : \A x \in S : x <= m

\* the number of the last write
Clock(f) == Latest({f[l].made : l \in DOMAIN f})

MadeDir(f) == [Dir(<<>>) EXCEPT !.made = Clock(f) + 1]
MadeFile(f, content) == [File(content) EXCEPT !.made = Clock(f) + 1]

LocOf(c) == IF c = <<>> THEN c ELSE IF c[1] = CurDir THEN Tail(c) ELSE c

\* where a path leads: its components from the root, or from the working
\* directory (the location <<>>)
Loc(p) == LocOf(Components(p))

KindAt(f, l) == IF l \in DOMAIN f THEN f[l].kind ELSE "none"

exists(f, p) == KindAt(f, Loc(p)) # "none"
is_dir(f, p) == KindAt(f, Loc(p)) = "dir"
is_file(f, p) == KindAt(f, Loc(p)) = "file"

Under(l, root) == IsPrefixSeq(root, l)

\* the nodes below a location by their location relative to it, every
\* directory's listing order forgotten
Shape(f, root) ==
    [r \in {SubSeq(l, Len(root) + 1, Len(l)) : l \in {x \in DOMAIN f : Under(x, root) /\ x # root}}
        |-> [kind |-> f[root \o r].kind, content |-> f[root \o r].content]]

Restrict(f, S) == [l \in S |-> f[l]]

Unlist(f, up, name) ==
    [f EXCEPT ![up].entries = SelectSeq(@, LAMBDA e : e # name)]

Enlist(f, up, name) == [f EXCEPT ![up].entries = @ \o <<name>>]

RemoveAt(f, l) ==
    IF l = <<>> \/ KindAt(f, l) # "dir" THEN [ok |-> FALSE, fs |-> f]
    ELSE [ok |-> TRUE,
          fs |-> Unlist(Restrict(f, {x \in DOMAIN f : ~Under(x, l)}), Front(l), Last(l))]

\* fs::remove_dir_all
remove_dir_all(f, p) == RemoveAt(f, Loc(p))

CreateAt(f, l) ==
    IF l = <<>> \/ l \in DOMAIN f THEN [ok |-> FALSE, fs |-> f]
    ELSE IF Len(l) > MaxPathLen THEN [ok |-> FALSE, fs |-> f]
    ELSE IF KindAt(f, Front(l)) # "dir" THEN [ok |-> FALSE, fs |-> f]
    ELSE [ok |-> TRUE, fs |-> (l :> MadeDir(f)) @@ Enlist(f, Front(l), Last(l))]

\* fs::create_dir: fails when the path exists or its parent is no directory
create_dir(f, p) == CreateAt(f, Loc(p))

CopyAt(f, from, to) ==
    IF KindAt(f, from) # "file" \/ to = <<>> \/ KindAt(f, to) = "dir"
    THEN [ok |-> FALSE, fs |-> f]
    ELSE IF KindAt(f, Front(to)) # "dir" THEN [ok |-> FALSE, fs |-> f]
    ELSE IF to \in DOMAIN f
    THEN [ok |-> TRUE, fs |-> [f EXCEPT ![to] = MadeFile(f, f[from].content)]]
    ELSE [ok |-> TRUE,
          fs |-> (to :> MadeFile(f, f[from].content)) @@ Enlist(f, Front(to), Last(to))]

\* fs::copy: writes (or overwrites) the file `to` with the bytes of `from`
fs_copy(f, from, to) == CopyAt(f, Loc(from), Loc(to))

\* symlink_metadata(p).file_type().is_symlink()
is_symlink(f, p) == exists(f, p) /\ f[Loc(p)].link

RECURSIVE WalkDir(_, _, _)
RECURSIVE WalkEntries(_, _, _, _)
RECURSIVE WalkBelow(_, _, _)
\* WalkDir::new(root).follow_links(follow_links).into_iter(): the root, then
\* depth first what is below it, every directory in its listing order. A root
\* that is a symbolic link is followed whatever follow_links is; a symbolic
\* link met below the root is yielded, and descended into only with
\* follow_links.
WalkDir(f, root, follow_links) ==
    IF is_dir(f, root)
    THEN <<root>> \o WalkEntries(f, root, f[Loc(root)].entries, follow_links)
    ELSE IF exists(f, root) THEN <<root>>
    ELSE <<>>
WalkEntries(f, dir, names, follow_links) ==
    IF names = <<>> THEN <<>>
    ELSE WalkBelow(f, Join(dir, Head(names)), follow_links)
         \o WalkEntries(f, dir, Tail(names), follow_links)
WalkBelow(f, path, follow_links) ==
    IF is_symlink(f, path) /\ ~follow_links THEN <<path>>
    ELSE WalkDir(f, path, follow_links)

\* ------------------------------------------------- hashing and media types

Bytes == 0..MaxByte

RECURSIVE HexUpper(_)
\* the digest of a payload, written out: one text per payload (SHA-256 is
\* taken to be injective)
HexUpper(payload) ==
    IF payload = <<>> THEN "H" ELSE HexUpper(Front(payload)) \o ToString(Last(payload))

\* a mutation of hasher: the digest of the first byte alone
hasher_of_first_byte(payload) == HexUpper(<<Head(payload)>>)

\* Buster::hasher: HEXUPPER of the SHA-256 digest of the whole payload
hasher(payload) == HexUpper(payload)

\* Buster::read_to_string: all the bytes of the file
read_to_string(f, path) ==
    IF is_file(f, path) THEN Some(f[Loc(path)].content) ELSE None

IMAGE_SVG == <<"image/svg+xml">>
IMAGE_PNG == <<"image/png">>

MimeOfExtension(e) ==
    IF ~e.some THEN None
    ELSE IF e.val = <<"svg">> THEN Some(IMAGE_SVG)
    ELSE IF e.val = <<"png">> THEN Some(IMAGE_PNG)
    ELSE None

\* mime_guess::from_path(path).first(): by the extension alone
mime_guess(path) == MimeOfExtension(extension(path))

\* ------------------------------------------------------- processor::Files

\* processor::Files::new
Files_new(base_dir) == [map |-> <<>>, base_dir |-> base_dir]

\* a mutation of add: the value of an occupied key is replaced
add_overwriting(files, k, v) ==
    [files |-> [files EXCEPT !.map = (k :> v) @@ files.map],
     res   |-> IF k \in DOMAIN files.map THEN "key exists" ELSE "Ok"]

\* Files::add: a vacant key is inserted, an occupied one is left alone
add(files, k, v) ==
    IF k \in DOMAIN files.map
    THEN [files |-> files, res |-> "key exists"]
    ELSE [files |-> [files EXCEPT !.map = (k :> v) @@ files.map], res |-> "Ok"]

\* ------------------------------------------------------------- serde_json

Quote == "\""
Backslash == "\\"

EscapeChar(ch) == IF ch \in {Quote, Backslash} THEN <<Backslash, ch>> ELSE <<ch>>

RECURSIVE Escape(_)
\* the text of a JSON string literal: quotes and backslashes are escaped
Escape(s) == IF s = <<>> THEN <<>> ELSE EscapeChar(Head(s)) \o Escape(Tail(s))

\* a mutation of Unescape: the literal taken as it is written
Unescape_verbatim(s) == s

RECURSIVE Unescape(_)
\* the string a JSON string literal stands for
Unescape(s) ==
    IF s = <<>> THEN <<>>
    ELSE IF Head(s) = Backslash /\ Len(s) >= 2 THEN <<s[2]>> \o Unescape(SubSeq(s, 3, Len(s)))
    ELSE <<Head(s)>> \o Unescape(Tail(s))

\* a text is kept by what it spells: a JSON object (its fields) or, when it
\* spells no JSON value, its characters
ObjectText(fields) == [object |-> TRUE, fields |-> fields, chars |-> <<>>]
PlainText(chars) == [object |-> FALSE, fields |-> <<>>, chars |-> chars]

\* lib.rs: pub const CACHE_BUSTER_DATA_FILE: &str = "./src/cache_buster_data.json"
CACHE_BUSTER_DATA_FILE ==
    PlainText(<<Dot, Sep, "src", Sep, "cache_buster_data", Dot, "json">>)

\* serde_json::to_string(&Files): a JSON object of the two fields of the
\* struct; the map is a JSON object, one "key": "value" pair per entry (a JSON
\* object is kept as the set of its pairs: the order a HashMap iterates in
\* decides the order of the text and nothing else)
to_string(files) ==
    ObjectText(<< <<"map", {<<Escape(k), Escape(files.map[k])>> : k \in DOMAIN files.map}>>,
                  <<"base_dir", Escape(files.base_dir)>> >>)

\* the places of the fields of a JSON object that bear a name
FieldsNamed(json, name) == {j \in 1..Len(json) : json[j][1] = name}

\* a JSON object read into a HashMap<String, String>
MapOfPairs(pairs) ==
    [k \in {Unescape(pr[1]) : pr \in pairs} |->
        Unescape((CHOOSE pr \in pairs : Unescape(pr[1]) = k)[2])]

FilesOfFields(json, maps, base_dirs) ==
    IF Cardinality(maps) # 1 \/ Cardinality(base_dirs) # 1 THEN None
    ELSE Some([map      |-> MapOfPairs(json[CHOOSE j \in maps : TRUE][2]),
               base_dir |-> Unescape(json[CHOOSE j \in base_dirs : TRUE][2])])

ObjectOfFields(json) ==
    FilesOfFields(json, FieldsNamed(json, "map"), FieldsNamed(json, "base_dir"))

\* serde_json::from_str::<Files>: the text must spell a JSON object that has
\* every field once; None (an Err) otherwise
from_str(text) == IF text.object THEN ObjectOfFields(text.fields) ELSE None

\* Files::to_env: the table as JSON, written over CACHE_BUSTER_DATA_FILE
to_env(files) == Some(to_string(files))

\* processor::Files::load (tests): the data file read back
load(data) == IF data.some THEN from_str(data.val) ELSE None

\* ---------------------------------------------------------- filemap::Files

\* filemap::Files::new(map): the payload parsed; None stands for the panic
\* of unwrap()
filemap_new(payload) == from_str(payload)

Slice(base_dir, v) ==
    IF Len(base_dir) > Len(v) THEN Panicked ELSE Some(SubSeq(v, Len(base_dir) + 1, Len(v)))

\* filemap::Files::get: the stored path from its base_dir.len()'th byte on
get(files, path) ==
    IF path \in DOMAIN files.map THEN Slice(files.base_dir, files.map[path]) ELSE None

\* a mutation of get_full_path: a key is found by its components
get_full_path_by_components(files, path) ==
    IF \E k \in DOMAIN files.map : PathEq(k, path)
    THEN Some(files.map[CHOOSE k \in DOMAIN files.map : PathEq(k, path)])
    ELSE None

\* filemap::Files::get_full_path
get_full_path(files, path) ==
    IF path \in DOMAIN files.map THEN Some(files.map[path]) ELSE None

\* ------------------------------------------------------ processor::Buster

FilePaths(paths) == [kind |-> "FilePaths", items |-> paths]
FileExtentions(exts) == [kind |-> "FileExtentions", items |-> exts]

\* a mutation of validate: the entries of every rule are looked for
validate_every_rule(c, f) ==
    \A n \in SeqToSet(c.no_hash) :
        \A file \in SeqToSet(n.items) : exists(f, Join(c.source, file))

\* BusterBuilder::validate: every path of every FilePaths rule exists under source
validate(c, f) ==
    \A n \in SeqToSet(c.no_hash) :
        n.kind = "FilePaths" =>
            \A file \in SeqToSet(n.items) : exists(f, Join(c.source, file))

Ok(f) == [status |-> "ok", fs |-> f]
Err(f) == [status |-> "err", fs |-> f]
Panic(f) == [status |-> "panic", fs |-> f]

\* create_dir_structure, the entry that is the walk's own root: its place in
\* result is created unless it exists
Mirrored(f, made) == IF made.ok THEN Ok(made.fs) ELSE Err(f)
MirrorDir(f, dest) == IF exists(f, dest) THEN Ok(f) ELSE Mirrored(f, create_dir(f, dest))

MirrorRoot(c, f, rel) ==
    IF ~rel.some THEN Panic(f) ELSE MirrorDir(f, Join(c.result, rel.val))

RECURSIVE create_dir_structure(_, _, _)
RECURSIVE CreateDirBelow(_, _, _)
RECURSIVE CreateDirLoop(_, _, _, _)
RECURSIVE CreateDirEntry(_, _, _)
RECURSIVE CreateDirInto(_, _, _)
\* Buster::create_dir_structure: walks path; the walk's own root is created in
\* result, an entry that is another directory is handed to a recursive call,
\* and the walk then goes into that directory itself. The walk reads the
\* listing of a directory when it goes into it (readdir reads on its first
\* call), so it meets what the calls before have created there.
create_dir_structure(c, f, path) ==
    IF ~exists(f, path) THEN Err(f)
    ELSE IF ~is_dir(f, path) THEN Ok(f)
    ELSE CreateDirBelow(c, MirrorRoot(c, f, strip_prefix(path, c.source)), path)
CreateDirBelow(c, st, dir) ==
    IF st.status # "ok" THEN st
    ELSE CreateDirLoop(c, st, dir, st.fs[Loc(dir)].entries)
CreateDirLoop(c, st, dir, names) ==
    IF names = <<>> THEN st
    ELSE IF st.status # "ok" THEN st
    ELSE CreateDirLoop(c, CreateDirEntry(c, st.fs, Join(dir, Head(names))), dir, Tail(names))
CreateDirEntry(c, f, entry_path) ==
    IF ~is_dir(f, entry_path) THEN Ok(f)
    ELSE CreateDirInto(c, create_dir_structure(c, f, entry_path), entry_path)
CreateDirInto(c, st, entry_path) ==
    IF st.status # "ok" THEN st
    ELSE IF is_symlink(st.fs, entry_path) /\ ~c.follow_links THEN st
    ELSE CreateDirBelow(c, st, entry_path)

InitCreate(c, created) ==
    IF ~created.ok THEN Panic(created.fs)
    ELSE create_dir_structure(c, created.fs, c.source)

InitRemoved(c, removed) ==
    IF ~removed.ok THEN Panic(removed.fs)
    ELSE InitCreate(c, create_dir(removed.fs, c.result))

\* a mutation of init: a result directory that exists is kept as it is
init_keeping(c, f) ==
    IF exists(f, c.result) THEN create_dir_structure(c, f, c.source)
    ELSE InitCreate(c, create_dir(f, c.result))

InitUnmirrored(created) == IF created.ok THEN Ok(created.fs) ELSE Panic(created.fs)

\* a mutation of init: result is made anew and no directory mirrored in it
init_without_mirror(c, f) ==
    IF exists(f, c.result)
    THEN InitUnmirrored(create_dir(remove_dir_all(f, c.result).fs, c.result))
    ELSE InitUnmirrored(create_dir(f, c.result))

\* Buster::init: result removed if it exists, created, the directories of
\* source mirrored in it
init(c, f) ==
    IF exists(f, c.result) THEN InitRemoved(c, remove_dir_all(f, c.result))
    ELSE InitCreate(c, create_dir(f, c.result))

NameOf(stem, ext, hash, no_hash) ==
    IF ~stem.some \/ ~ext.some THEN Panicked
    ELSE IF no_hash THEN Some(stem.val \o <<Dot>> \o ext.val)
    ELSE Some(stem.val \o <<Dot, hash, Dot>> \o ext.val)

\* a mutation of get_name: no name carries the hash
get_name_unhashed(path, hash, no_hash) ==
    NameOf(file_stem(path), extension(path), hash, TRUE)

\* get_name (closure of process): stem.extension, or stem.HASH.extension
get_name(path, hash, no_hash) == NameOf(file_stem(path), extension(path), hash, no_hash)

ExtensionIn(e, exts) == e.some /\ \E ext \in SeqToSet(exts) : e.val = ext

\* a mutation of no_hash_status: only the first rule is looked at
no_hash_status_first(c, path) ==
    /\ c.no_hash # <<>>
    /\ \/ /\ Head(c.no_hash).kind = "FilePaths"
          /\ \E file_path \in SeqToSet(Head(c.no_hash).items) :
                PathEq(Join(c.source, file_path), path)
       \/ /\ Head(c.no_hash).kind = "FileExtentions"
          /\ ExtensionIn(extension(path), Head(c.no_hash).items)

\* no_hash_status (process): some rule names the path or its extension
no_hash_status(c, path) ==
    \E n \in SeqToSet(c.no_hash) :
        \/ /\ n.kind = "FilePaths"
           /\ \E file_path \in SeqToSet(n.items) : PathEq(Join(c.source, file_path), path)
        \/ /\ n.kind = "FileExtentions"
           /\ ExtensionIn(extension(path), n.items)

ParentOfRel(rel) == IF ~rel.some THEN Panicked ELSE parent(rel.val)
SomeOrPanicked(o) == IF o.some THEN o ELSE Panicked

\* rel_location of gen_map and copy:
\* source.strip_prefix(&self.source).unwrap().parent().unwrap()
rel_location(c, source) == SomeOrPanicked(ParentOfRel(strip_prefix(source, c.source)))

\* the result directory as gen_map joins it to a prefix: less one leading '/'
StripLeadingSlash(result) == IF has_root(result) THEN Tail(result) ELSE result

GenMapAt(c, rel, name) ==
    IF ~rel.some THEN Panicked
    ELSE IF c.prefix.some
    THEN Some(Join(Join(Join(c.prefix.val, StripLeadingSlash(c.result)), rel.val), name))
    ELSE Some(Join(Join(c.result, rel.val), name))

GenMapUnstrippedAt(c, rel, name) ==
    IF ~rel.some THEN Panicked
    ELSE IF c.prefix.some
    THEN Some(Join(Join(Join(c.prefix.val, c.result), rel.val), name))
    ELSE Some(Join(Join(c.result, rel.val), name))

\* a mutation of gen_map: result is joined to the prefix with its leading '/'
gen_map_unstripped(c, source, name) == GenMapUnstrippedAt(c, rel_location(c, source), name)

\* Buster::gen_map: the destination recorded for a source file
gen_map(c, source, name) == GenMapAt(c, rel_location(c, source), name)

CopyDestinationAt(c, rel, name) ==
    IF ~rel.some THEN Panicked ELSE Some(Join(Join(c.result, rel.val), name))

\* the path Buster::copy writes
copy_destination(c, source, name) == CopyDestinationAt(c, rel_location(c, source), name)

Copied(f, copied) == IF copied.ok THEN Ok(copied.fs) ELSE Panic(f)
CopyTo(f, source, dest) == IF ~dest.some THEN Panic(f) ELSE Copied(f, fs_copy(f, source, dest.val))

\* a mutation of copy: nothing is written unless the copy flag is set
copy_if_flag(c, f, source, name) ==
    IF c.copy THEN CopyTo(f, source, copy_destination(c, source, name)) ELSE Ok(f)

\* Buster::copy
copy(c, f, source, name) == CopyTo(f, source, copy_destination(c, source, name))

NoAdd == [k |-> <<>>, v |-> <<>>, before |-> <<>>, res |-> "none"]
AddCall(k, v, before, res) == [k |-> k, v |-> v, before |-> before, res |-> res]

\* the state a walk carries: the file system, the table, the last add
WalkState(status, f, files, la) ==
    [status |-> status, fs |-> f, file_map |-> files, last_add |-> la]

WorkerAdded(st, path, f, dest, added) ==
    WalkState("ok", f, added.files, AddCall(path, dest, st.file_map.map, added.res))

WorkerCopied(st, path, copied, dest) ==
    IF copied.status # "ok" THEN [st EXCEPT !.status = "panic"]
    ELSE IF ~dest.some THEN [st EXCEPT !.status = "panic", !.fs = copied.fs]
    ELSE WorkerAdded(st, path, copied.fs, dest.val, add(st.file_map, path, dest.val))

WorkerNamed(c, st, path, new_name) ==
    IF ~new_name.some THEN [st EXCEPT !.status = "panic"]
    ELSE WorkerCopied(st, path, copy(c, st.fs, path, new_name.val),
                      gen_map(c, path, new_name.val))

WorkerRead(c, st, path, contents) ==
    IF ~contents.some THEN [st EXCEPT !.status = "panic"]
    ELSE WorkerNamed(c, st, path,
                     get_name(path, hasher(contents.val), no_hash_status(c, path)))

\* process_worker (closure of process): read, hash, name, copy, record; the
\* result of add is dropped
process_worker(c, st, path) == WorkerRead(c, st, path, read_to_string(st.fs, path))

\* a mutation of MimeMatch: a file of any resolved type is processed
MimeMatch_any(c, st, path, mime_type, file_mime) ==
    IF ~file_mime.some THEN [st EXCEPT !.status = "panic"]
    ELSE process_worker(c, st, path)

\* a mutation of MimeMatch: an unresolved type is passed over
MimeMatch_permissive(c, st, path, mime_type, file_mime) ==
    IF file_mime.some /\ file_mime.val = mime_type THEN process_worker(c, st, path)
    ELSE st

MimeMatch(c, st, path, mime_type, file_mime) ==
    IF ~file_mime.some THEN [st EXCEPT !.status = "panic"]
    ELSE IF file_mime.val = mime_type THEN process_worker(c, st, path)
    ELSE st

RECURSIVE MimeLoop(_, _, _, _)
\* the loop over mime_types for one file: an unresolved type panics, a type
\* equal to the file's has the file processed
MimeLoop(c, st, path, mime_types) ==
    IF mime_types = <<>> THEN st
    ELSE IF st.status # "ok" THEN st
    ELSE MimeLoop(c, MimeMatch(c, st, path, Head(mime_types), mime_guess(path)),
                  path, Tail(mime_types))

\* the body of the walk of process: a directory is passed over, a file goes
\* through the media-type filter, or straight to process_worker without one
WalkEntry(c, st, path) ==
    IF is_dir(st.fs, path) THEN st
    ELSE IF c.mime_types.some THEN MimeLoop(c, st, path, c.mime_types.val)
    ELSE process_worker(c, st, path)

RECURSIVE WalkLoop(_, _, _)
WalkLoop(c, st, entries) ==
    IF entries = <<>> THEN st
    ELSE IF st.status # "ok" THEN st
    ELSE WalkLoop(c, WalkEntry(c, st, Head(entries)), Tail(entries))

\* process after init: Files::new, then the walk of source
walk(c, f, la) ==
    IF ~exists(f, c.source) THEN WalkState("err", f, Files_new(c.result), la)
    ELSE WalkLoop(c, WalkState("ok", f, Files_new(c.result), la), WalkDir(f, c.source, c.follow_links))

\* ---------------------------------------------- hash.rs: hash and try_hash

\* '\n' among the bytes
LineFeed == 1

\* hash.rs read_to_string: the lines of the file, their terminators dropped
read_lines(f, path) ==
    IF is_file(f, path)
    THEN Some(SelectSeq(f[Loc(path)].content, LAMBDA b : b # LineFeed))
    ELSE None

\* hash.rs Buster: no prefix and no exclusion rule
HashConfig(c) == [c EXCEPT !.prefix = None, !.no_hash = <<>>]

\* the body of hash and of try_hash for an entry of a listed type: read, hash,
\* name stem.HASH.extension, copy, record (the steps of process_worker with no
\* prefix and no exclusion rule)
hash_worker(c, st, path) == WorkerRead(HashConfig(c), st, path, read_lines(st.fs, path))

HashMatch(c, st, path, mime_type, file_mime) ==
    IF ~file_mime.some THEN [st EXCEPT !.status = "panic"]
    ELSE IF file_mime.val = mime_type THEN hash_worker(c, st, path)
    ELSE st

RECURSIVE HashMimeLoop(_, _, _, _)
HashMimeLoop(c, st, path, mime_types) ==
    IF mime_types = <<>> THEN st
    ELSE IF st.status # "ok" THEN st
    ELSE HashMimeLoop(c, HashMatch(c, st, path, Head(mime_types), mime_guess(path)),
                      path, Tail(mime_types))

\* hash: a directory is passed over, an unresolved type panics
HashEntry(c, st, path) ==
    IF is_dir(st.fs, path) THEN st ELSE HashMimeLoop(c, st, path, c.mime_types.val)

RECURSIVE HashLoop(_, _, _)
HashLoop(c, st, entries) ==
    IF entries = <<>> THEN st
    ELSE IF st.status # "ok" THEN st
    ELSE HashLoop(c, HashEntry(c, st, Head(entries)), Tail(entries))

\* Buster::hash of hash.rs (the table is Files::default())
hash(c, f, la) ==
    IF ~exists(f, c.source) THEN WalkState("err", f, Files_new(<<>>), la)
    ELSE HashLoop(c, WalkState("ok", f, Files_new(<<>>), la), WalkDir(f, c.source, c.follow_links))

TryHashMatch(c, st, path, mime_type, file_mime) ==
    IF file_mime.some /\ file_mime.val = mime_type THEN hash_worker(c, st, path)
    ELSE st

RECURSIVE TryHashMimeLoop(_, _, _, _)
\* try_hash: every entry of the walk, a directory too, goes through the loop
\* over mime_types; an unresolved type is passed over
TryHashMimeLoop(c, st, path, mime_types) ==
    IF mime_types = <<>> THEN st
    ELSE IF st.status # "ok" THEN st
    ELSE TryHashMimeLoop(c, TryHashMatch(c, st, path, Head(mime_types), mime_guess(path)),
                         path, Tail(mime_types))

RECURSIVE TryHashLoop(_, _, _)
TryHashLoop(c, st, entries) ==
    IF entries = <<>> THEN st
    ELSE IF st.status # "ok" THEN st
    ELSE TryHashLoop(c, TryHashMimeLoop(c, st, Head(entries), c.mime_types.val),
                     Tail(entries))

\* Buster::try_hash of hash.rs
try_hash(c, f, la) ==
    IF ~exists(f, c.source) THEN WalkState("err", f, Files_new(<<>>), la)
    ELSE TryHashLoop(c, WalkState("ok", f, Files_new(<<>>), la), WalkDir(f, c.source, c.follow_links))

\* ------------------------------------------------- the build script's world

ZeroContent == [i \in 1..ContentLen |-> 0]
OneContent == [i \in 1..ContentLen |-> IF i = ContentLen THEN 1 ELSE 0]

\* the source directory d holds a.svg and some of: a file named like the
\* fingerprint of a.svg when that holds ZeroContent, a file n whose name has
\* no extension, a directory s holding the directory c.svg and the file b.png
AName == <<"a", Dot, "svg">>
HName == <<"a", Dot, hasher(ZeroContent), Dot, "svg">>
NName == <<"n">>
SName == <<"s">>
BName == <<"b", Dot, "png">>
\* a directory of s whose name ends like that of an image
CName == <<"c", Dot, "svg">>
TopNames == {AName, HName, NName, SName}

Sources == { <<Dot, Sep, "d">>, <<"d">> }
Results == { <<Sep, "o">>, <<"p">> }
Prefixes == {None, Some(<<Sep, "t">>)}
MimeChoices == {None, Some(<<IMAGE_SVG, IMAGE_SVG>>)}
NoHashChoices ==
    { <<>>,
      <<FilePaths(<<HName>>)>>,
      <<FilePaths(<<AName>>), FileExtentions(<< <<"png">> >>)>> }
CopyChoices == {TRUE}
\* the result directory before the first run: not there, empty, or holding
\* a file and a directory of some earlier use
ResultStates == {"absent", "empty", "stale"}

ListedAfter(name) == IF name = SName THEN 2 ELSE IF name = NName THEN 1 ELSE 0

\* the orders read_dir may list the names in: a.svg and its namesake either
\* way round, then n, then the directory s
Orders(S) ==
    {o \in [1..Cardinality(S) -> S] :
        /\ \A i, j \in 1..Cardinality(S) : i # j => o[i] # o[j]
        /\ \A i, j \in 1..Cardinality(S) : i < j => ListedAfter(o[i]) <= ListedAfter(o[j])}

\* the nodes of a source tree, by location relative to the source directory
SourceTree(a, h, n, s, order) ==
    (<<>> :> Dir(order))
    @@ (<<AName>> :> File(a))
    @@ (IF h THEN (<<HName>> :> File(OneContent)) ELSE <<>>)
    @@ (IF n THEN (<<NName>> :> File(ZeroContent)) ELSE <<>>)
    @@ (IF s THEN (<<SName>> :> Dir(<<CName, BName>>))
                  @@ (<<SName, CName>> :> Dir(<<>>))
                  @@ (<<SName, BName>> :> File(OneContent))
        ELSE <<>>)

ResultTree(pre) ==
    IF pre = "absent" THEN <<>>
    ELSE IF pre = "empty" THEN (<<>> :> Dir(<<>>))
    ELSE (<<>> :> Dir(<< <<"z">>, <<"y">> >>))
         @@ (<< <<"z">> >> :> File(ZeroContent))
         @@ (<< <<"y">> >> :> Dir(<<>>))

Graft(tree, at) ==
    [l \in {at \o r : r \in DOMAIN tree} |-> tree[SubSeq(l, Len(at) + 1, Len(l))]]

\* the working directory holds the source directory d (and p, if that is the
\* result and exists); the root holds o, if that is the result and exists
InitialFs(tree, res, pre) ==
    (<<>> :> Dir(<< <<"d">> >> \o
                 (IF pre # "absent" /\ ~has_root(res) THEN <<Last(Loc(res))>> ELSE <<>>)))
    @@ (<<RootDir>> :> Dir(IF pre # "absent" /\ has_root(res)
                           THEN <<Last(Loc(res))>> ELSE <<>>))
    @@ Graft(tree, << <<"d">> >>) @@ Graft(ResultTree(pre), Loc(res))

NoPrev == [map |-> <<>>, table |-> None, tree |-> <<>>, names |-> <<>>]

\* ------------------------------------------------------------------ states

\* the names the source directory holds
Present(h, n, s) ==
    {AName} \cup (IF h THEN {HName} ELSE {}) \cup (IF n THEN {NName} ELSE {})
            \cup (IF s THEN {SName} ELSE {})

Init ==
    \E a \in {ZeroContent, OneContent}, h \in BOOLEAN, n \in BOOLEAN, s \in BOOLEAN,
       src \in Sources, res \in Results, pre \in ResultStates,
       px \in Prefixes, mt \in MimeChoices, nh \in NoHashChoices, cp \in CopyChoices :
      \E order \in Orders(Present(h, n, s)) :
        /\ cfg = [source |-> src, result |-> res, prefix |-> px, mime_types |-> mt,
                  no_hash |-> nh, copy |-> cp, follow_links |-> TRUE]
        /\ fs = InitialFs(SourceTree(a, h, n, s, order), res, pre)
        /\ fs0 = InitialFs(SourceTree(a, h, n, s, order), res, pre)
        /\ pc = "config"
        /\ file_map = Files_new(<<>>)
        /\ data_file = None
        /\ loaded = None
        /\ run = "first"
        /\ prev = NoPrev
        /\ edited = {}
        /\ last_add = NoAdd

\* BusterBuilder::build(): validate, then the Buster or the error
Build ==
    /\ pc = "config"
    /\ pc' = IF validate(cfg, fs) THEN "built" ELSE "build_err"
    /\ UNCHANGED <<cfg, fs, file_map, data_file, loaded, run, prev, edited, last_add, fs0>>

StatusPc(status, ok) ==
    IF status = "ok" THEN ok ELSE IF status = "panic" THEN "panicked" ELSE "failed"

\* Buster::process, its call of init
DoInit ==
    /\ pc = "built"
    /\ \E r \in {init(cfg, fs)} :
        /\ fs' = r.fs
        /\ pc' = StatusPc(r.status, "mirrored")
    /\ UNCHANGED <<cfg, file_map, data_file, loaded, run, prev, edited, last_add, fs0>>

\* Buster::process after init: the walk of source and, if that went through,
\* to_env
DoWalk ==
    /\ pc = "mirrored"
    /\ \E r \in {walk(cfg, fs, last_add)} :
        /\ fs' = r.fs
        /\ file_map' = r.file_map
        /\ last_add' = r.last_add
        /\ pc' = StatusPc(r.status, "done")
        /\ data_file' = IF r.status = "ok" THEN to_env(r.file_map) ELSE data_file
    /\ UNCHANGED <<cfg, loaded, run, prev, edited, fs0>>

\* the running program: filemap::Files::new on the content of the data file
Load ==
    /\ pc = "done"
    /\ ~loaded.some
    /\ data_file.some
    /\ loaded' = filemap_new(data_file.val)
    /\ UNCHANGED <<cfg, pc, fs, file_map, data_file, run, prev, edited, last_add, fs0>>

EditsAt(f, l) ==
    {[loc |-> l, content |-> [f[l].content EXCEPT ![i] = (@ + 1) % (MaxByte + 1)]] :
        i \in 1..ContentLen}

\* the edits of one byte of the source file a.svg
Edits(f) == EditsAt(f, Loc(Join(cfg.source, AName)))

\* what a run left behind: the table, the table the program loaded, the tree
\* below result, and the name every source file was given
Outcome ==
    [map   |-> file_map.map,
     table |-> loaded,
     tree  |-> Shape(fs, Loc(cfg.result)),
     names |-> [k \in DOMAIN file_map.map |-> file_name(file_map.map[k]).val]]

\* a file put into a directory, listed first or last in it
WithFile(f, dir, name, content, first) ==
    (dir \o <<name>> :> File(content))
    @@ [f EXCEPT ![dir].entries = IF first THEN <<name>> \o @ ELSE @ \o <<name>>]

\* the build script is run again, the source tree as it was, or one byte of
\* a.svg changed, or the file n put into source
Rerun ==
    /\ pc = "done"
    /\ run = "first"
    /\ loaded.some
    /\ \/ /\ fs' = fs
          /\ edited' = {}
       \/ \E e \in Edits(fs) :
          /\ fs' = [fs EXCEPT ![e.loc] = File(e.content)]
          /\ edited' = {e.loc}
       \/ \E first \in BOOLEAN :
          /\ ~exists(fs, Join(cfg.source, NName))
          /\ fs' = WithFile(fs, Loc(cfg.source), NName, ZeroContent, first)
          /\ edited' = {Loc(Join(cfg.source, NName))}
    /\ prev' = Outcome
    /\ run' = "second"
    /\ pc' = "built"
    /\ loaded' = None
    /\ UNCHANGED <<cfg, file_map, data_file, last_add, fs0>>

\* the running program, as the crate's documentation has it:
\* Files::new(CACHE_BUSTER_DATA_FILE); unwrap() panics on an Err
LoadAsDocumented ==
    /\ pc = "done"
    /\ loaded = None
    /\ \E r \in {filemap_new(CACHE_BUSTER_DATA_FILE)} :
        loaded' = IF r.some THEN r ELSE Panicked
    /\ UNCHANGED <<cfg, pc, fs, file_map, data_file, run, prev, edited, last_add, fs0>>

Next == Build \/ DoInit \/ DoWalk \/ Load \/ LoadAsDocumented \/ Rerun

Spec == Init /\ [][Next]_vars

\* Buster::process as one step from a file system: init, then the walk
AfterInit(c, r) ==
    IF r.status = "ok" THEN walk(c, r.fs, NoAdd)
    ELSE WalkState(r.status, r.fs, Files_new(<<>>), NoAdd)

process(c, f) == AfterInit(c, init(c, f))

\* --------------------------------------- media types and the three walks

\* a file whose extension stands for no media type
UName == <<"u", Dot, "zzz">>

FilterChoices == {None, Some(<<>>), Some(<<IMAGE_SVG>>), Some(<<IMAGE_PNG, IMAGE_SVG>>)}
OddFiles == {"none", "n", "u"}

\* d holds a.svg, then n or u.zzz or neither, then s or not
FilterTree(a, odd, s) ==
    IF odd = "u"
    THEN WithFile(SourceTree(a, FALSE, FALSE, s, IF s THEN <<AName, SName>> ELSE <<AName>>),
                  <<>>, UName, ZeroContent, TRUE)
    ELSE SourceTree(a, FALSE, odd = "n", s,
                    <<AName>> \o (IF odd = "n" THEN <<NName>> ELSE <<>>)
                              \o (IF s THEN <<SName>> ELSE <<>>))

InitFilter ==
    \E a \in {ZeroContent, OneContent}, odd \in OddFiles, s \in BOOLEAN,
       res \in Results, mt \in FilterChoices, cp \in BOOLEAN :
        /\ cfg = [source |-> <<"d">>, result |-> res, prefix |-> None, mime_types |-> mt,
                  no_hash |-> <<>>, copy |-> cp, follow_links |-> TRUE]
        /\ fs = InitialFs(FilterTree(a, odd, s), res, "absent")
        /\ fs0 = InitialFs(FilterTree(a, odd, s), res, "absent")
        /\ pc = "config"
        /\ file_map = Files_new(<<>>)
        /\ data_file = None
        /\ loaded = None
        /\ run = "first"
        /\ prev = NoPrev
        /\ edited = {}
        /\ last_add = NoAdd

\* hash.rs: init() then hash(), as tests::hasher_works calls them
DoHash ==
    /\ pc = "mirrored"
    /\ cfg.mime_types.some
    /\ \E r \in {hash(cfg, fs, last_add)} :
        /\ fs' = r.fs
        /\ file_map' = r.file_map
        /\ last_add' = r.last_add
        /\ pc' = IF r.status = "ok" THEN "hashed" ELSE "hash_panicked"
    /\ UNCHANGED <<cfg, data_file, loaded, run, prev, edited, fs0>>

\* hash.rs: init() then try_hash(), as tests::try_hash_works calls them
DoTryHash ==
    /\ pc = "mirrored"
    /\ cfg.mime_types.some
    /\ \E r \in {try_hash(cfg, fs, last_add)} :
        /\ fs' = r.fs
        /\ file_map' = r.file_map
        /\ last_add' = r.last_add
        /\ pc' = IF r.status = "ok" THEN "try_hashed" ELSE "try_hash_panicked"
    /\ UNCHANGED <<cfg, data_file, loaded, run, prev, edited, fs0>>

NextFilter == Build \/ DoInit \/ DoWalk \/ DoHash \/ DoTryHash \/ Load

SpecFilter == InitFilter /\ [][NextFilter]_vars

\* ------------------------------------------- a symbolic link in source

TName == <<"t">>
LName == <<"l">>
XName == <<"x">>
GName == <<"g", Dot, "svg">>

\* the directory t beside source: a directory x and a file g.svg
LinkTarget ==
    (<<>> :> Dir(<<XName, GName>>)) @@ (<<XName>> :> Dir(<<>>))
    @@ (<<GName>> :> File(OneContent))

\* source holds a.svg, s or not, and l, a symbolic link to t
LinkedSource(a, s) ==
    Graft([LinkTarget EXCEPT ![<<>>] = LinkedDir(<<XName, GName>>)], <<LName>>)
    @@ Enlist(SourceTree(a, FALSE, FALSE, s, IF s THEN <<AName, SName>> ELSE <<AName>>),
              <<>>, LName)

LinkedFs(a, s, res, pre) ==
    Graft(LinkTarget, <<TName>>) @@ Enlist(InitialFs(LinkedSource(a, s), res, pre), <<>>, TName)

InitLinks ==
    \E a \in {ZeroContent, OneContent}, s \in BOOLEAN, res \in Results,
       pre \in ResultStates, mt \in {None, Some(<<IMAGE_SVG>>)}, fl \in BOOLEAN :
        /\ cfg = [source |-> <<"d">>, result |-> res, prefix |-> None, mime_types |-> mt,
                  no_hash |-> <<>>, copy |-> TRUE, follow_links |-> fl]
        /\ fs = LinkedFs(a, s, res, pre)
        /\ fs0 = LinkedFs(a, s, res, pre)
        /\ pc = "config"
        /\ file_map = Files_new(<<>>)
        /\ data_file = None
        /\ loaded = None
        /\ run = "first"
        /\ prev = NoPrev
        /\ edited = {}
        /\ last_add = NoAdd

NextLinks == Build \/ DoInit \/ DoWalk \/ Load

SpecLinks == InitLinks /\ [][NextLinks]_vars

\* ------------------------------------------- result in or beside source

\* result beside source, source itself, a new directory in source, and the
\* directory s of source
Placements == { <<"p">>, <<"d">>, <<"d", Sep, "o">>, <<"d", Sep, "s">> }

InitPlaced ==
    \E a \in {ZeroContent, OneContent}, s \in BOOLEAN, res \in Placements,
       mt \in {None, Some(<<IMAGE_SVG>>)}, fl \in BOOLEAN :
        /\ cfg = [source |-> <<"d">>, result |-> res, prefix |-> None, mime_types |-> mt,
                  no_hash |-> <<>>, copy |-> TRUE, follow_links |-> fl]
        /\ fs = InitialFs(SourceTree(a, FALSE, FALSE, s,
                                      IF s THEN <<AName, SName>> ELSE <<AName>>),
                           res, "absent")
        /\ fs0 = InitialFs(SourceTree(a, FALSE, FALSE, s,
                                       IF s THEN <<AName, SName>> ELSE <<AName>>),
                            res, "absent")
        /\ pc = "config"
        /\ file_map = Files_new(<<>>)
        /\ data_file = None
        /\ loaded = None
        /\ run = "first"
        /\ prev = NoPrev
        /\ edited = {}
        /\ last_add = NoAdd

NextPlaced == Build \/ DoInit \/ DoWalk \/ Load

SpecPlaced == InitPlaced /\ [][NextPlaced]_vars

\* ------------------------------------------------- a table on its own

TableKeys == { <<"d", Sep, "a", Dot, "svg">>, <<"d", Sep, "s", Sep, "b", Dot, "png">>,
               <<"d", Sep, Quote, Backslash>> }
TableVals == { <<Sep, "o", Sep, "a", Dot, "H00", Dot, "svg">>, <<Sep, "o", Sep, Backslash, Quote>> }
TableBaseDirs == { <<Sep, "o">>, <<Quote, "p", Backslash>> }

\* Files::new(base_dir), as process() calls it
InitTable ==
    \E base_dir \in TableBaseDirs :
        /\ cfg = [source |-> <<"d">>, result |-> base_dir, prefix |-> None,
                  mime_types |-> None, no_hash |-> <<>>, copy |-> TRUE, follow_links |-> TRUE]
        /\ fs = (<<>> :> Dir(<<>>))
        /\ fs0 = (<<>> :> Dir(<<>>))
        /\ pc = "table"
        /\ file_map = Files_new(base_dir)
        /\ data_file = None
        /\ loaded = None
        /\ run = "first"
        /\ prev = NoPrev
        /\ edited = {}
        /\ last_add = NoAdd

\* Files::add called with any key and value
TableAdd ==
    /\ pc = "table"
    /\ \E k \in TableKeys, v \in TableVals :
        \E r \in {add(file_map, k, v)} :
            /\ file_map' = r.files
            /\ last_add' = AddCall(k, v, file_map.map, r.res)
    /\ UNCHANGED <<cfg, pc, fs, data_file, loaded, run, prev, edited, fs0>>

\* Files::to_env, the last step of process()
TableToEnv ==
    /\ pc = "table"
    /\ data_file' = to_env(file_map)
    /\ pc' = "persisted"
    /\ UNCHANGED <<cfg, fs, file_map, loaded, run, prev, edited, last_add, fs0>>

\* filemap::Files::new on what was written
TableLoad ==
    /\ pc = "persisted"
    /\ ~loaded.some
    /\ data_file.some
    /\ loaded' = filemap_new(data_file.val)
    /\ UNCHANGED <<cfg, pc, fs, file_map, data_file, run, prev, edited, last_add, fs0>>

TableNext == TableAdd \/ TableToEnv \/ TableLoad

SpecTable == InitTable /\ [][TableNext]_vars

\* ------------------------------------------------------------- the claims

\* the regular files the walk of process() meets, by the path it names them
WalkedFiles == {p \in SeqToSet(WalkDir(fs, cfg.source, cfg.follow_links)) : is_file(fs, p)}

FilterHas(guess, mime_types) == guess.some /\ guess.val \in SeqToSet(mime_types)

\* the file passes the media-type filter (without a filter every file does)
PassesFilter(p) ==
    ~cfg.mime_types.some \/ FilterHas(mime_guess(p), cfg.mime_types.val)

\* the files that are to be fingerprinted, and those that are to pass through
Fingerprinted == {p \in WalkedFiles : PassesFilter(p) /\ ~no_hash_status(cfg, p)}
PassedThrough == {p \in WalkedFiles : PassesFilter(p) /\ no_hash_status(cfg, p)}

BytesAt(p) == fs[Loc(p)].content

\* the directory of a source file, relative to source
RelDir(p) == parent(strip_prefix(p, cfg.source).val).val

\* result/relative-dir/name
WrittenPath(p, name) == Join(Join(cfg.result, RelDir(p)), name)

\* the file name of the destination recorded for a key
RecordedName(p) == file_name(file_map.map[p]).val

\* {stem}.{HASH}.{extension}, HASH the hash of the source file's bytes
HashedName(p) == file_stem(p).val \o <<Dot, hasher(BytesAt(p)), Dot>> \o extension(p).val

C2_PassThroughCopied ==
    pc = "done" =>
        \A p \in PassedThrough :
            /\ p \in DOMAIN file_map.map
            /\ Some(RecordedName(p)) = file_name(p)
            /\ is_file(fs, WrittenPath(p, RecordedName(p)))
            /\ BytesAt(WrittenPath(p, RecordedName(p))) = BytesAt(p)

C4_AddWriteOnce ==
    last_add.res # "none" =>
        /\ last_add.res \in {"Ok", "key exists"}
        /\ last_add.res = "key exists" <=> last_add.k \in DOMAIN last_add.before
        /\ last_add.res = "key exists" => file_map.map = last_add.before
        /\ last_add.res = "Ok" =>
            /\ DOMAIN file_map.map = DOMAIN last_add.before \cup {last_add.k}
            /\ file_map.map[last_add.k] = last_add.v
            /\ \A k \in DOMAIN last_add.before : file_map.map[k] = last_add.before[k]

C4_Witness ==
    /\ last_add.res = "key exists"
    /\ last_add.v # file_map.map[last_add.k]
    /\ Cardinality(DOMAIN file_map.map) >= 2

\* C5: a table built by Files::new and add, written by to_env and read back
\* by Files::load or by filemap's Files::new, is a table with the same mapping
\* and the same base_dir.
C5_RoundTrip ==
    pc = "persisted" =>
        /\ data_file.some
        /\ load(data_file) = Some(file_map)
        /\ filemap_new(data_file.val) = Some(file_map)
        /\ loaded # None => loaded = Some(file_map)

C5_Witness ==
    /\ pc = "persisted"
    /\ loaded.some
    /\ Cardinality(DOMAIN loaded.val.map) >= 2
    /\ Quote \in SeqToSet(loaded.val.base_dir)
    /\ \E k \in DOMAIN loaded.val.map : Backslash \in SeqToSet(k)

GetStripsBaseDir(files, k, relative, full) ==
    /\ relative.some
    /\ full = Some(file_map.map[k])
    /\ files.base_dir \o relative.val = full.val

\* C6 as stated: for every table process() produces, with or without a route
\* prefix, and every key k of it, get(k) returns the stored path with the base
\* directory removed, so that base_dir followed by get(k) is get_full_path(k),
\* and get_full_path(k) is the stored path.
C6_GetStripsBaseDir ==
    loaded.some =>
        \A k \in DOMAIN loaded.val.map :
            GetStripsBaseDir(loaded.val, k, get(loaded.val, k), get_full_path(loaded.val, k))

DotSlash == <<Dot, Sep>>

\* the keys of the table and the paths that differ from a key by a leading "./"
Probes ==
    UNION {{k, DotSlash \o k, IF IsPrefixSeq(DotSlash, k) THEN SubSeq(k, 3, Len(k)) ELSE k} :
            k \in DOMAIN file_map.map}
    \cup { <<"d", Sep, "x">> }

ExactMatch(files, q, relative, full) ==
    IF q \in DOMAIN file_map.map
    THEN /\ relative.some
         /\ full = Some(file_map.map[q])
         /\ ~cfg.prefix.some => is_file(fs, full.val)
    ELSE relative = None /\ full = None

MissingFilePath ==
    \E n \in SeqToSet(cfg.no_hash) :
        /\ n.kind = "FilePaths"
        /\ \E file \in SeqToSet(n.items) : ~exists(fs0, Join(cfg.source, file))

\* C8: build() fails if and only if some path of a FilePaths rule does not
\* exist under source (a FileExtentions rule never makes it fail), and it
\* fails with the file system as it was and no table persisted.
C8_ValidationFails ==
    pc # "config" =>
        /\ pc = "build_err" <=> MissingFilePath
        /\ pc = "build_err" => (fs = fs0 /\ data_file = None /\ file_map.map = <<>>)

C8_Witness ==
    /\ pc = "build_err"
    /\ MissingFilePath
    /\ exists(fs, cfg.result)

\* the recorded destination less the leading prefix
Unprefixed(v) == SubSeq(v, Len(cfg.prefix.val) + 1, Len(v))

PrefixedAt(p, v, written) ==
    /\ v = Join(Join(Join(cfg.prefix.val,
                          IF has_root(cfg.result) THEN Tail(cfg.result) ELSE cfg.result),
                     RelDir(p)),
                file_name(v).val)
    /\ is_file(fs, written)
    /\ IsPrefixSeq(cfg.prefix.val, v)

SourceDirs ==
    {SubSeq(l, Len(Loc(cfg.source)) + 1, Len(l)) :
        l \in {x \in DOMAIN fs : /\ Under(x, Loc(cfg.source))
                                 /\ x # Loc(cfg.source)
                                 /\ fs[x].kind = "dir"}}

\* one empty directory for each of them
Skeleton == [r \in SourceDirs |-> [kind |-> "dir", content |-> <<>>]]

IsSkeleton(r) == r.status = "ok" /\ Shape(r.fs, Loc(cfg.result)) = Skeleton

\* C10: whatever the result directory held (nothing, an empty directory, the
\* files of other use or of an earlier run), init() goes through and leaves in
\* it one directory for each directory under source, at the same relative
\* path, and no file; init() run again leaves the same.
C10_MirrorIdempotent ==
    /\ pc = "built" => init(cfg, fs).status = "ok"
    /\ pc = "mirrored" =>
        /\ Shape(fs, Loc(cfg.result)) = Skeleton
        /\ IsSkeleton(init(cfg, fs))

C10_Witness ==
    /\ pc = "mirrored"
    /\ run = "second"
    /\ SourceDirs # {}
    /\ \E r \in DOMAIN prev.tree : prev.tree[r].kind = "file"

\* the nodes at and below the result directory
UnderResult == {l \in DOMAIN fs : Under(l, Loc(cfg.result))}

\* C11: in every run of process() the mirroring of the directories is over
\* before the first file is copied into result (every directory there was
\* made before every file, and after init() result holds no file); every
\* directory was made after its parent; when the copies begin the directory
\* every file is to be copied into exists, and no run panics but on a file
\* without an extension (so never on a copy).
C11_Ordering ==
    pc \in {"mirrored", "done", "panicked"} =>
        /\ \A l \in UnderResult : fs[Front(l)].kind = "dir" /\ fs[Front(l)].made < fs[l].made
        /\ \A l, m \in UnderResult :
            (fs[l].kind = "dir" /\ fs[m].kind = "file") => fs[l].made < fs[m].made
        /\ pc = "mirrored" =>
            /\ \A l \in UnderResult : fs[l].kind = "dir"
            /\ \A p \in WalkedFiles : is_dir(fs, Join(cfg.result, RelDir(p)))
        /\ pc = "panicked" => \E p \in WalkedFiles : ~extension(p).some

C11_Witness ==
    /\ pc = "done"
    /\ \E l, m \in UnderResult :
        /\ Len(l) = Len(Loc(cfg.result)) + 2
        /\ Len(m) = Len(l)
        /\ fs[l].kind = "file"
        /\ fs[m].kind = "dir"

\* every entry of a table leads to a file in result (result/relative-dir/name,
\* the name that of the recorded destination)
PointsToFiles(t) ==
    t.some =>
        \A k \in DOMAIN t.val.map : is_file(fs, WrittenPath(k, file_name(t.val.map[k]).val))

\* C12 as stated: after process() has aborted on a fatal error, whatever was
\* there before, no table is persisted at the data-file location that gives
\* a loader entries for files missing from the result directory.
C12_NoStaleTable ==
    pc \in {"panicked", "failed"} => PointsToFiles(load(data_file))

ResolvesAll(t) == t.some /\ \A k \in DOMAIN file_map.map : get(t.val, k).some

\* C13 as stated: after a successful process(), Files::new(
\* CACHE_BUSTER_DATA_FILE), the call of the crate's documentation, returns the
\* file map the processor wrote, and get resolves every processed file on it.
C13_DocumentedLoad ==
    /\ loaded # Panicked
    /\ pc = "done" => ResolvesAll(filemap_new(CACHE_BUSTER_DATA_FILE))

\* C14 as stated: with no media-type filter process() completes, and every
\* regular file under source, with or without an extension, is copied into
\* result and recorded in the table.
C14_EveryFileProcessed ==
    ~cfg.mime_types.some =>
        /\ pc \notin {"panicked", "failed"}
        /\ pc = "done" =>
            \A p \in WalkedFiles :
                /\ p \in DOMAIN file_map.map
                /\ is_file(fs, WrittenPath(p, RecordedName(p)))

\* a regular file of the walk whose extension stands for no media type
Unresolved == {p \in WalkedFiles : ~mime_guess(p).some}

NonEmptyFilter == cfg.mime_types.some /\ cfg.mime_types.val # <<>>

Aborted == pc \in {"panicked", "hash_panicked"}
Completed == pc \in {"done", "hashed"}

OtherCopy == [cfg EXCEPT !.copy = ~cfg.copy]

SameOutcome(r) == r.fs = fs /\ r.file_map = file_map

FilesUnderResult == {l \in UnderResult : fs[l].kind = "file"}
WrittenFiles == {Loc(WrittenPath(p, RecordedName(p))) : p \in DOMAIN file_map.map}

NamedByPath(p) ==
    \E i \in 1..Len(cfg.no_hash) :
        /\ cfg.no_hash[i].kind = "FilePaths"
        /\ \E j \in 1..Len(cfg.no_hash[i].items) :
              PathEq(Join(cfg.source, cfg.no_hash[i].items[j]), p)

\* the file's extension is listed by a FileExtentions rule
NamedByExtension(p) ==
    \E i \in 1..Len(cfg.no_hash) :
        /\ cfg.no_hash[i].kind = "FileExtentions"
        /\ extension(p).some
        /\ \E j \in 1..Len(cfg.no_hash[i].items) : cfg.no_hash[i].items[j] = extension(p).val

Backwards(q) == [i \in 1..Len(q) |-> q[Len(q) + 1 - i]]

\* C17: after process() a recorded file keeps its own name if and only if a FilePaths rule
\* names its path or a FileExtentions rule lists its extension, and carries
\* the hash otherwise; the rules in reverse order, or each given twice,
\* classify every file of the walk the same way.
C17_Classification ==
    /\ pc = "done" =>
        \A p \in DOMAIN file_map.map :
            /\ RecordedName(p) = file_name(p).val <=> NamedByPath(p) \/ NamedByExtension(p)
            /\ ~(NamedByPath(p) \/ NamedByExtension(p)) => RecordedName(p) = HashedName(p)
    /\ \A p \in WalkedFiles :
        /\ no_hash_status([cfg EXCEPT !.no_hash = Backwards(cfg.no_hash)], p)
             = no_hash_status(cfg, p)
        /\ no_hash_status([cfg EXCEPT !.no_hash = cfg.no_hash \o cfg.no_hash], p)
             = no_hash_status(cfg, p)

\* a run completed under two rules: one file kept its name by its path, one
\* by its extension under the second rule, one carries the hash
C17_Witness ==
    /\ pc = "done"
    /\ Len(cfg.no_hash) = 2
    /\ \E p \in DOMAIN file_map.map : NamedByPath(p) /\ ~NamedByExtension(p)
    /\ \E p \in DOMAIN file_map.map : NamedByExtension(p) /\ ~NamedByPath(p)
    /\ \E p \in DOMAIN file_map.map : RecordedName(p) = HashedName(p)

\* how often the filter lists a type
Occurrences(t, mime_types) == Cardinality({i \in 1..Len(mime_types) : mime_types[i] = t})

\* C18: after process() with a media-type filter the keys of the table are
\* the regular files whose guessed type is in the filter; each has one entry
\* and the files in result are their destinations, one for each; when the
\* filter lists the type of the file added last more than once, that add was
\* refused as a duplicate and the run went on.
C18_FilterDecides ==
    pc = "done" /\ cfg.mime_types.some =>
        /\ DOMAIN file_map.map
             = {p \in WalkedFiles : FilterHas(mime_guess(p), cfg.mime_types.val)}
        /\ \A p \in DOMAIN file_map.map : is_file(fs, WrittenPath(p, RecordedName(p)))
        /\ FilesUnderResult = WrittenFiles
        /\ last_add.res # "none" /\
             Occurrences(mime_guess(last_add.k).val, cfg.mime_types.val) > 1
               => last_add.res = "key exists" /\ last_add.k \in DOMAIN file_map.map

\* a.svg is recorded under a filter that lists its type twice, b.png of
\* another type is not, and the last add was refused
C18_Witness ==
    /\ pc = "done"
    /\ cfg.mime_types.some
    /\ Occurrences(IMAGE_SVG, cfg.mime_types.val) = 2
    /\ Join(cfg.source, AName) \in DOMAIN file_map.map
    /\ is_file(fs, Join(Join(cfg.source, SName), BName))
    /\ Join(Join(cfg.source, SName), BName) \notin DOMAIN file_map.map
    /\ last_add.res = "key exists"

\* the directories of the walk
WalkedDirs == {p \in SeqToSet(WalkDir(fs, cfg.source, cfg.follow_links)) : is_dir(fs, p)}

\* C20 as stated: no walk variant reads, copies or records a directory:
\* neither process() nor hash() nor try_hash() aborts on one, and no key of
\* the table is a directory.
C20_DirectoriesSkipped ==
    /\ \A p \in WalkedDirs : p \notin DOMAIN file_map.map
    /\ pc # "try_hash_panicked"
    /\ pc \in {"panicked", "hash_panicked"} => Unresolved # {}

\* the link l of source and its place in result
LinkInSource == Loc(Join(cfg.source, LName))
LinkInResult == Loc(Join(cfg.result, LName))

\* C19 as stated: without follow_links the mirror makes no directory in
\* result for l, the symbolic link of source, or what is below it, and the
\* walk copies and records no file below l.
C19_LinksNotFollowed ==
    ~cfg.follow_links =>
        /\ \A x \in DOMAIN fs : ~Under(x, LinkInResult)
        /\ \A k \in DOMAIN file_map.map : ~Under(Loc(k), LinkInSource)

\* C22 as stated: in one run of process() no two source files are copied to
\* the same destination: distinct keys of the table have distinct values and
\* distinct written paths.
C22_DestinationsInjective ==
    pc = "done" =>
        \A p, q \in DOMAIN file_map.map :
            p # q =>
                /\ file_map.map[p] # file_map.map[q]
                /\ Loc(WrittenPath(p, RecordedName(p))) # Loc(WrittenPath(q, RecordedName(q)))

\* the directories below a directory
DirsBelow(f, root) == {l \in DOMAIN f : Under(l, root) /\ l # root /\ f[l].kind = "dir"}

SourceNodes(f) == Restrict(f, {l \in DOMAIN f : Under(l, Loc(cfg.source))})

\* C23 as stated: wherever result is put, init() and the copy steps leave
\* every file and directory of source as it was when process() began.
C23_SourceUntouched == SourceNodes(fs) = SourceNodes(fs0)

====
